---- MODULE Spec2Model ----
(***************************************************************************)
(* A model of the real-coded genetic algorithm of 9Echo/basicGA:           *)
(*   src/GA.py            Individual, Population, GA (monolithic driver)   *)
(*   src/GA/GAProcess.py  GA (modular driver with elitism)                 *)
(* Real numbers are exact rationals <<n, d>> with d > 0 in lowest terms.   *)
(* Python objects live in a heap; a population holds references to them.   *)
(***************************************************************************)
EXTENDS Integers, Sequences, FiniteSets, TLC

VARIABLES
    size,         \* Population._size
    individuals,  \* Population._individuals: references into heap, or None
    heap,         \* the live Individual objects
    evaluation,   \* Population._evaluation: the cache, or None
    err,          \* the exception that ended the program, or "none"
    steps,        \* operations called so far
    last,         \* history of the last operation
    fV,           \* an evaluation vector handed to the fitness property
    fOut,         \* the fitness vector returned for it, or None
    rG,           \* the generation budget of a mutation schedule
    rBase,        \* the schedule's uniform draw, given by its base
    rSolve,       \* GA.solve's mutation magnitudes of generations 1, 2, ...
    rRun,         \* GA.run's mutation magnitudes of generations 1, 2, ...
    sParam,       \* GA._param of the monolithic driver
    sPc,          \* where GA.solve is
    sGen,         \* current_gen
    sRate,        \* the mutation magnitude of the current generation
    sSpreads,     \* history: max(V) - min(V) at each convergence test
    sTrace,       \* history: the operations solve has called
    sResult,      \* the value solve returned, or None
    mArgs,        \* the arguments given to the modular driver's constructor
    mDriver,      \* the modular driver's fields, or None while unassigned
    mPc,          \* where the modular driver is
    mRun,         \* the arguments of run(): gen and elitism
    mPop,         \* the chromosomes of the modular driver's population, or None
    mN,           \* n, the generation run() is in
    mBest,        \* the_best, the snapshot of the generation, or None
    mSnaps,       \* history: the objective value of each snapshot
    mResult       \* the individual run() returned, or None

popVars == <<size, individuals, heap, evaluation, err, steps, last>>
fitVars == <<fV, fOut>>
rateVars == <<rG, rBase, rSolve, rRun>>
solveVars == <<sParam, sPc, sGen, sRate, sSpreads, sTrace, sResult>>
runVars == <<mArgs, mDriver, mPc, mRun, mPop, mN, mBest, mSnaps, mResult>>
vars == <<popVars, fitVars, rateVars, solveVars, runVars>>

(***************************************************************************)
(* Bounds of the model.                                                    *)
(***************************************************************************)
\* population operations called after GA.__init__
MaxSteps == 2
\* length of the evaluation vectors handed to the fitness property
FitMaxSize == 3
\* the evaluation values are the integers -MaxEval..MaxEval
MaxEval == 2
\* generation budgets of the mutation schedules
RateMaxGen == 2
\* largest denominator of the base of a schedule's uniform draw
RateMaxDen == 5
\* largest max_generation given to the monolithic driver
SolveMaxGen == 2
\* largest gen given to the modular driver's run()
RunMaxGen == 2
\* the modular population's genes are the integers -MaxGene..MaxGene
MaxGene == 1

(***************************************************************************)
(* Exact rational arithmetic.                                              *)
(***************************************************************************)
Abs(x) == IF x < 0 THEN -x ELSE x

RECURSIVE GCD(_, _)
GCD(a, b) == IF b = 0 THEN a ELSE GCD(b, a % b)

Norm(n, d) ==
    LET g == GCD(Abs(n), d) IN <<n \div g, d \div g>>

Q(n, d) == Norm(n, d)
Zero == <<0, 1>>
One == <<1, 1>>
RAdd(x, y) == Norm(x[1] * y[2] + y[1] * x[2], x[2] * y[2])
RSub(x, y) == Norm(x[1] * y[2] - y[1] * x[2], x[2] * y[2])
RMul(x, y) == Norm(x[1] * y[1], x[2] * y[2])
RLeq(x, y) == x[1] * y[2] <= y[1] * x[2]
RLt(x, y) == x[1] * y[2] < y[1] * x[2]
RAbs(x) == <<Abs(x[1]), x[2]>>

RECURSIVE RSum(_)
RSum(s) == IF s = <<>> THEN Zero ELSE RAdd(s[1], RSum(Tail(s)))

\* numpy's elementwise a >= lo and a <= hi, reduced with .all()
AllWithin(c, lo, hi) ==
    \A i \in 1..Len(c) : RLeq(lo[i], c[i]) /\ RLeq(c[i], hi[i])

(***************************************************************************)
(* The inputs: values np.random.rand() may return, parameter values.       *)
(***************************************************************************)
Draws == {Q(0, 1), Q(3, 4)}
SelectDraws == {Q(0, 1), Q(1, 2), Q(3, 4)}
\* mutation magnitudes and crossover blending factors, all in [0, 1]
Alphas == {Q(0, 1), Q(1, 2), Q(1, 1)}
CrossAlphas == {Q(1, 4)}
\* crossover and mutation rates: with Draws on either side of the rate, every
\* pattern of crossed pairs and of mutated slots occurs
Rates == {Q(1, 2)}
\* (lower, upper) with lower <= upper, used for every gene: one interval
\* holds 0 and one does not
BoundPairs == {<<Q(-2, 1), Q(2, 1)>>, <<Q(1, 1), Q(3, 1)>>}

(***************************************************************************)
(* class Individual                                                        *)
(***************************************************************************)
\* Individual.initialize: lbound + (ubound - lbound) * seeds
IndividualInitialize(lb, ub, seeds) ==
    [i \in 1..Len(lb) |-> RAdd(lb[i], RMul(RSub(ub[i], lb[i]), seeds[i]))]

\* the chrom setter's two assertions
ChromSetterOk(dim, lb, ub, chrom) ==
    /\ dim = Len(chrom)
    /\ AllWithin(chrom, lb, ub)

\* _chrom[pos] -= (_chrom[pos] - _lbound[pos]) * alpha
CreepDown(v, lo, alpha) == RSub(v, RMul(RSub(v, lo), alpha))

\* a creep that adds a fraction of the bound itself
CreepUpWhole(v, hi, alpha) == RAdd(v, RMul(hi, alpha))

\* _chrom[pos] += (_ubound[pos] - _chrom[pos]) * alpha
CreepUp(v, hi, alpha) == RAdd(v, RMul(RSub(hi, v), alpha))

\* Individual.mutate: coin[pos] is the np.random.rand() drawn for pos
IndividualMutate(ind, positions, coin, alpha) ==
    [ind EXCEPT !.chrom =
        [i \in 1..Len(ind.chrom) |->
            IF i \in positions
            THEN IF RLt(coin[i], Q(1, 2))
                 THEN CreepDown(ind.chrom[i], ind.lbound[i], alpha)
                 ELSE CreepUp(ind.chrom[i], ind.ubound[i], alpha)
            ELSE ind.chrom[i]]]

(***************************************************************************)
(* Floating-point results of a division: <<0,0>> is nan, <<1,0>> is inf,   *)
(* <<-1,0>> is -inf (numpy divides by zero with a warning, not an error).  *)
(***************************************************************************)
NaN == <<0, 0>>
Sign(n) == IF n > 0 THEN 1 ELSE IF n < 0 THEN -1 ELSE 0

FDiv(x, y) ==
    IF y[1] = 0 THEN <<Sign(x[1]), 0>>
    ELSE Norm(Sign(y[1]) * x[1] * y[2], Abs(y[1]) * x[2])

FAdd(x, y) ==
    IF x[2] # 0 /\ y[2] # 0 THEN RAdd(x, y)
    ELSE IF x[2] # 0 THEN y
    ELSE IF y[2] # 0 THEN x
    ELSE IF x = y THEN x ELSE NaN

\* x >= y for a finite x; a comparison with nan is False
FGeq(x, y) ==
    IF y[2] # 0 THEN RLeq(y, x) ELSE y[1] < 0

RECURSIVE CumSum(_)
CumSum(s) ==
    IF Len(s) <= 1 THEN s
    ELSE LET c == CumSum(SubSeq(s, 1, Len(s) - 1))
         IN Append(c, FAdd(c[Len(c)], s[Len(s)]))

(***************************************************************************)
(* The adaptive mutation magnitude.  A power with a real exponent is exact  *)
(* for the draws U = base ^ G (GA.solve) and U = base ^ (G ^ 3) (GA.run)    *)
(* with a rational base in [0, 1): U ** (1 - g/G) = base ^ (G - g) and      *)
(* U ** ((1 - g/G) ** 3) = base ^ ((G - g) ^ 3).                            *)
(***************************************************************************)
\* x ** k for an integer k >= 0; Python's 0.0 ** 0 is 1.0
RECURSIVE RPow(_, _)
RPow(x, k) == IF k = 0 THEN One ELSE RMul(x, RPow(x, k - 1))

\* a schedule whose exponent is g/G
AdaptiveRateSolveRising(base, g, G) == RSub(One, RPow(base, g))

\* GA.solve: 1.0 - np.random.rand() ** (1.0 - current_gen/max_generation)
AdaptiveRateSolve(base, g, G) == RSub(One, RPow(base, G - g))

\* GA.run: 1.0 - np.random.rand() ** ((1.0 - n/gen) ** 3)
AdaptiveRateRun(base, n, gen) ==
    RSub(One, RPow(base, (gen - n) * (gen - n) * (gen - n)))

(***************************************************************************)
(* Helpers for the random choices.                                         *)
(***************************************************************************)
\* the sequences of n distinct elements of S
RECURSIVE Arrangements(_, _)
Arrangements(S, n) ==
    IF n = 0 THEN {<<>>}
    ELSE UNION {{<<x>> \o r : r \in Arrangements(S \ {x}, n - 1)} : x \in S}

NoDraw == <<>>

(***************************************************************************)
(* class Population                                                        *)
(***************************************************************************)
\* Python's None for a list or an array that is never empty when present
None == <<>>

\* the evaluation function handed to Population.__init__: the sum of the genes
fun_evaluation(chrom) == RSum(chrom)

Chroms(inds, hp) == [i \in 1..Len(inds) |-> hp[inds[i]].chrom]

\* np.array([self._fun_evaluation(I.chrom) for I in self._individuals])
Evaluate(inds, hp) == [i \in 1..Len(inds) |-> fun_evaluation(hp[inds[i]].chrom)]

\* the evaluation property: the cache after the read
EvaluationProperty(cache, inds, hp) ==
    IF cache = None THEN Evaluate(inds, hp) ELSE cache

\* the fitness without the absolute values
FitnessRawSigned(V) ==
    LET S == RSum(V)
    IN [i \in 1..Len(V) |-> RSub(S, V[i])]

\* np.sum(np.abs(V)) - V
FitnessRaw(V) ==
    LET S == RSum([i \in 1..Len(V) |-> RAbs(V[i])])
    IN [i \in 1..Len(V) |-> RSub(S, V[i])]

\* fitness / np.sum(fitness)
Fitness(V) ==
    LET f == FitnessRaw(V)
        T == RSum(f)
    IN [i \in 1..Len(V) |-> FDiv(f[i], T)]

\* np.sum(r >= probabilities): the 0-based index the roulette stops at
RouletteIndex(r, probabilities) ==
    Cardinality({k \in 1..Len(probabilities) : FGeq(r, probabilities[k])})

RECURSIVE RMax(_)
RMax(s) ==
    IF Len(s) = 1 THEN s[1]
    ELSE LET m == RMax(Tail(s)) IN IF RLeq(m, s[1]) THEN s[1] ELSE m

RECURSIVE RMin(_)
RMin(s) ==
    IF Len(s) = 1 THEN s[1]
    ELSE LET m == RMin(Tail(s)) IN IF RLeq(s[1], m) THEN s[1] ELSE m

\* Population.convergent: max_eval - min_eval <= tol
Convergent(V, tol) == RLeq(RSub(RMax(V), RMin(V)), tol)

\* Population.best: np.argmin, the first index of the minimum, and its value
ArgMin(V) == CHOOSE p \in 1..Len(V) :
    /\ \A q \in 1..Len(V) : RLeq(V[p], V[q])
    /\ \A q \in 1..(p - 1) : V[q] # V[p]
Best(V, inds) == <<inds[ArgMin(V)], V[ArgMin(V)]>>

\* renumber the live objects in order of first appearance and drop the rest
FirstPos(inds, id) == CHOOSE p \in 1..Len(inds) :
    inds[p] = id /\ \A q \in 1..(p - 1) : inds[q] # id
Rank(inds, id) ==
    Cardinality({inds[q] : q \in 1..FirstPos(inds, id)})
CanonInds(inds) == [i \in 1..Len(inds) |-> Rank(inds, inds[i])]
CanonHeap(inds, hp) ==
    LET live == {inds[i] : i \in 1..Len(inds)}
    IN [k \in 1..Cardinality(live) |->
           hp[CHOOSE id \in live : Rank(inds, id) = k]]

\* history of the last operation: its name, the length of crossover's candidate
\* pool, and for mutate which slots' rate draws succeeded
NoHistory(op) == [op |-> op, pool |-> 0, hits |-> <<>>]

Seeds == {Q(0, 1), Q(1, 2)}
\* population sizes
Sizes == {1, 2}
\* the (size, dimention) given to GA.__init__: several individuals of one
\* gene, and one individual of several genes
Shapes == {<<1, 1>>, <<1, 2>>, <<2, 1>>}
DimsOf(n) == {sh[2] : sh \in {x \in Shapes : x[1] = n}}

\* the object Individual(dim, lbound, ubound) after initialize()
NewIndividual(dim, lb, ub, chrom) ==
    [dim |-> dim, lbound |-> lb, ubound |-> ub, chrom |-> chrom]

\* Population.initialize: size fresh individuals; _evaluation is not touched
Initialize(dim, lb, ub, seeds) ==
    /\ err = "none"
    /\ individuals' = [i \in 1..size |-> i]
    /\ heap' = [i \in 1..size |->
                   NewIndividual(dim, lb, ub, IndividualInitialize(lb, ub, seeds[i]))]
    /\ last' = NoHistory("initialize")
    /\ UNCHANGED <<size, evaluation, err>>

\* a read of evaluation, fitness, best or convergent(): each goes through the
\* evaluation property, which fills the cache when it is None
ReadProperty ==
    /\ err = "none"
    /\ individuals # None
    /\ evaluation' = EvaluationProperty(evaluation, individuals, heap)
    /\ last' = NoHistory("read")
    /\ UNCHANGED <<size, individuals, heap, err>>

\* Population.select, roulette: r[i] is the i-th np.random.rand()
SelectedIndividuals(r) ==
    LET V == EvaluationProperty(evaluation, individuals, heap)
        probabilities == CumSum(Fitness(V))
    IN [i \in 1..size |-> individuals[RouletteIndex(r[i], probabilities) + 1]]

Select(r) ==
    /\ err = "none"
    /\ individuals # None
    /\ LET selected == SelectedIndividuals(r)
       IN /\ individuals' = CanonInds(selected)
          /\ heap' = CanonHeap(selected, heap)
    /\ evaluation' = None
    /\ last' = NoHistory("select")
    /\ UNCHANGED <<size, err>>

\* the 0/1 value of a boolean in an arithmetic expression
Bit(b) == IF b THEN One ELSE Zero

\* individual_a.chrom*pos*alpha + individual_b.chrom*pos*(1-alpha)
CrossValue(ca, cb, pos, alpha) ==
    [i \in 1..Len(ca) |->
        RAdd(RMul(RMul(ca[i], Bit(pos[i])), alpha),
             RMul(RMul(cb[i], Bit(pos[i])), RSub(One, alpha)))]

\* np.random.rand(dimension) <= 0.5
CrossPositions(mask) == [i \in 1..Len(mask) |-> RLeq(mask[i], Q(1, 2))]

\* whether both chrom assignments of cross_individuals pass their assertions
CrossAccepted(a, b, mask, alpha) ==
    LET pos == CrossPositions(mask)
    IN /\ ChromSetterOk(a.dim, a.lbound, a.ubound, CrossValue(a.chrom, b.chrom, pos, alpha))
       /\ ChromSetterOk(b.dim, b.lbound, b.ubound, CrossValue(a.chrom, b.chrom, pos, RSub(One, alpha)))

\* Population.cross_individuals: the two new individuals
cross_individuals(a, b, mask, alpha) ==
    LET pos == CrossPositions(mask)
    IN <<NewIndividual(a.dim, a.lbound, a.ubound, CrossValue(a.chrom, b.chrom, pos, alpha)),
         NewIndividual(b.dim, b.lbound, b.ubound,
                       CrossValue(a.chrom, b.chrom, pos, RSub(One, alpha)))>>

Dimension == heap[individuals[1]].dim

\* what the random source yields for one pair: the rate draw, and the mask
\* drawn inside cross_individuals when the pair is crossed
PairDraws(rate) ==
    {[draw |-> d, mask |-> NoDraw] : d \in {x \in Draws : ~RLeq(x, rate)}}
    \cup {[draw |-> d, mask |-> m] : d \in {x \in Draws : RLeq(x, rate)},
                                     m \in [1..Dimension -> Draws]}

\* a pool that keeps one entry per pair
CrossPoolShort(perm, pairs, rate) ==
    [k \in 1..Len(individuals) |-> individuals[k]]

\* the candidate pool new_individuals, as references into heap \o CrossHeap
CrossPool(perm, pairs, rate) ==
    [k \in 1..(2 * Len(individuals)) |->
        LET i == (k + 1) \div 2
        IN IF RLeq(pairs[i].draw, rate) THEN Len(heap) + k
           ELSE IF k % 2 = 1 THEN individuals[i] ELSE individuals[perm[i]]]

\* the objects the loop allocates (slots of uncrossed pairs are never referenced)
CrossHeap(perm, pairs, rate, alpha) ==
    [k \in 1..(2 * Len(individuals)) |->
        LET i == (k + 1) \div 2
            a == heap[individuals[i]]
            b == heap[individuals[perm[i]]]
        IN IF RLeq(pairs[i].draw, rate)
           THEN cross_individuals(a, b, pairs[i].mask, alpha)[2 - (k % 2)]
           ELSE a]

\* Population.crossover: perm is np.random.permutation, pick the indices
\* np.random.choice(new_individuals, size, replace=False) draws
Crossover(rate, alpha, perm, pairs) ==
    /\ err = "none"
    /\ individuals # None
    /\ IF \E i \in 1..Len(individuals) :
            /\ RLeq(pairs[i].draw, rate)
            /\ ~CrossAccepted(heap[individuals[i]], heap[individuals[perm[i]]],
                              pairs[i].mask, alpha)
       THEN /\ err' = "AssertionError"
            /\ last' = NoHistory("crossover")
            /\ UNCHANGED <<size, individuals, heap, evaluation>>
       ELSE LET pool == CrossPool(perm, pairs, rate)
                h2 == heap \o CrossHeap(perm, pairs, rate, alpha)
            IN /\ \E pick \in Arrangements(1..Len(pool), size) :
                    LET chosen == [k \in 1..size |-> pool[pick[k]]]
                    IN /\ individuals' = CanonInds(chosen)
                       /\ heap' = CanonHeap(chosen, h2)
               /\ evaluation' = None
               /\ last' = [NoHistory("crossover") EXCEPT !.pool = Len(pool)]
               /\ UNCHANGED <<size, err>>

\* what the random source yields for one slot of Population.mutate
SlotDraws(num, rate) ==
    {[draw |-> d, pos |-> {}, coin |-> NoDraw] : d \in {x \in Draws : ~RLeq(x, rate)}}
    \cup UNION {{[draw |-> d, pos |-> P, coin |-> c] : c \in [P -> Draws]} :
            d \in {x \in Draws : RLeq(x, rate)},
            P \in {S \in SUBSET (1..Dimension) : Cardinality(S) = num}}

\* the loop of Population.mutate from slot k on, acting on the heap in place
RECURSIVE MutateFrom(_, _, _, _, _)
MutateFrom(hp, k, rate, alpha, slots) ==
    IF k > Len(individuals) THEN hp
    ELSE MutateFrom(
            IF RLeq(slots[k].draw, rate)
            THEN [hp EXCEPT ![individuals[k]] =
                     IndividualMutate(hp[individuals[k]], slots[k].pos, slots[k].coin, alpha)]
            ELSE hp,
            k + 1, rate, alpha, slots)

Mutate(num, rate, alpha, slots) ==
    /\ err = "none"
    /\ individuals # None
    /\ evaluation' = None
    /\ heap' = MutateFrom(heap, 1, rate, alpha, slots)
    /\ last' = [NoHistory("mutate") EXCEPT
                   !.hits = [i \in 1..Len(individuals) |-> RLeq(slots[i].draw, rate)]]
    /\ UNCHANGED <<size, individuals, err>>

(***************************************************************************)
(* The population under any sequence of its operations.                    *)
(***************************************************************************)
\* GA.__init__: Population(fun_evaluation, size), then initialize(dimention, lbound, ubound)
GAInit(n, dim, lb, ub, seeds) ==
    /\ size = n
    /\ individuals = [i \in 1..n |-> i]
    /\ heap = [i \in 1..n |->
                  NewIndividual(dim, lb, ub, IndividualInitialize(lb, ub, seeds[i]))]
    /\ evaluation = None
    /\ err = "none"
    /\ steps = 0
    /\ last = NoHistory("init")

InitPop ==
    \E n \in Sizes, bp \in BoundPairs :
        \E dim \in DimsOf(n) :
            \E seeds \in [1..n -> [1..dim -> Seeds]] :
                GAInit(n, dim, [i \in 1..dim |-> bp[1]], [i \in 1..dim |-> bp[2]], seeds)

\* the population variables of a specification that does not use them
IdlePop ==
    /\ size = 1
    /\ individuals = None
    /\ heap = <<>>
    /\ evaluation = None
    /\ err = "none"
    /\ steps = 0
    /\ last = NoHistory("init")

IdleFit == fV = <<>> /\ fOut = None
IdleRate == rG = 0 /\ rBase = Zero /\ rSolve = <<>> /\ rRun = <<>>

IdleSolve ==
    /\ sParam = <<>>
    /\ sPc = "idle"
    /\ sGen = 0
    /\ sRate = Zero
    /\ sSpreads = <<>>
    /\ sTrace = <<>>
    /\ sResult = None

IdleRun ==
    /\ mArgs = <<>>
    /\ mDriver = None
    /\ mPc = "idle"
    /\ mRun = <<>>
    /\ mPop = None
    /\ mN = 0
    /\ mBest = None
    /\ mSnaps = <<>>
    /\ mResult = None

Init == InitPop /\ IdleFit /\ IdleRate /\ IdleSolve /\ IdleRun

Step == steps < MaxSteps /\ steps' = steps + 1

DoInitialize ==
    /\ Step
    /\ \E dim \in DimsOf(size) :
         \E bp \in BoundPairs, seeds \in [1..size -> [1..dim -> Seeds]] :
            Initialize(dim, [i \in 1..dim |-> bp[1]], [i \in 1..dim |-> bp[2]], seeds)
    /\ UNCHANGED <<fitVars, rateVars, solveVars, runVars>>

DoRead == Step /\ ReadProperty /\ UNCHANGED <<fitVars, rateVars, solveVars, runVars>>

DoSelect ==
    /\ Step
    /\ \E r \in [1..size -> SelectDraws] : Select(r)
    /\ UNCHANGED <<fitVars, rateVars, solveVars, runVars>>

DoCrossover ==
    /\ Step
    /\ individuals # None
    /\ \E rate \in Rates, alpha \in CrossAlphas :
         \E perm \in Permutations(1..size), pairs \in [1..size -> PairDraws(rate)] :
            Crossover(rate, alpha, perm, pairs)
    /\ UNCHANGED <<fitVars, rateVars, solveVars, runVars>>

DoMutate ==
    /\ Step
    /\ individuals # None
    /\ \E num \in 1..Dimension, rate \in Rates, alpha \in Alphas :
         \E slots \in [1..size -> SlotDraws(num, rate)] :
            Mutate(num, rate, alpha, slots)
    /\ UNCHANGED <<fitVars, rateVars, solveVars, runVars>>

Next ==
    \/ DoInitialize
    \/ DoRead
    \/ DoSelect
    \/ DoCrossover
    \/ DoMutate

Spec == Init /\ [][Next]_vars

InBounds(ind) == AllWithin(ind.chrom, ind.lbound, ind.ubound)

\* C1: every gene of every individual the population holds lies within its
\* bounds, after initialize and any sequence of completed select, crossover
\* and mutate calls
C1_BoundsInvariant ==
    individuals # None =>
        \A i \in 1..Len(individuals) :
            /\ InBounds(heap[individuals[i]])
            /\ \A g \in 1..heap[individuals[i]].dim :
                  RLeq(heap[individuals[i]].lbound[g], heap[individuals[i]].ubound[g])

\* a mutation that moved a gene strictly inside its interval, then another operation
C1_Witness ==
    /\ individuals # None
    /\ steps = 2
    /\ last.op \in {"select", "crossover"}
    /\ \E i \in 1..Len(individuals) : \E g \in 1..Dimension :
          LET ind == heap[individuals[i]]
          IN /\ RLt(ind.lbound[g], ind.chrom[g])
             /\ RLt(ind.chrom[g], ind.ubound[g])
             /\ ind.chrom[g] # RMul(RAdd(ind.lbound[g], ind.ubound[g]), Q(1, 2))
             /\ ind.chrom[g] # Zero

\* C2: the evaluation cache is absent or equals the evaluation function
\* applied, slot by slot, to the chromosomes now in the population
C2_CacheConsistent ==
    (individuals # None /\ evaluation # None) =>
        evaluation = Evaluate(individuals, heap)

\* C4: the population holds exactly size individuals after every operation,
\* and a completed crossover drew them from a candidate pool of 2 * size
C4_SizePreserved ==
    individuals # None =>
        /\ Len(individuals) = size
        /\ (last.op = "crossover" /\ err = "none") => last.pool = 2 * size

\* a completed crossover on a full-size population, after a selection
C4_Witness ==
    /\ last.op = "crossover"
    /\ err = "none"
    /\ size = 2
    /\ steps = MaxSteps
    /\ Len(individuals) = size
    /\ Len(heap) = size

\* C9: crossover never aborts on a population whose individuals are all
\* within their bounds
C9_CrossoverNeverAborts ==
    (individuals # None /\ \A i \in 1..Len(individuals) : InBounds(heap[individuals[i]]))
        => err = "none"

\* C10: a mutate call changes the chromosome at a slot only if that slot's
\* own rate draw succeeded
C10_SlotIndependence ==
    [][(last'.op = "mutate" /\ steps' = steps + 1) =>
          \A s \in 1..size :
              Chroms(individuals', heap')[s] # Chroms(individuals, heap)[s]
                  => last'.hits[s]]_vars

(***************************************************************************)
(* The fitness property as a function of the evaluation vector.            *)
(***************************************************************************)
EvalValues == {Q(k, 1) : k \in (0 - MaxEval)..MaxEval}

InitFitness ==
    /\ fV \in UNION {[1..n -> EvalValues] : n \in 1..FitMaxSize}
    /\ fOut = None
    /\ IdlePop
    /\ IdleRate
    /\ IdleSolve
    /\ IdleRun

ReadFitness ==
    /\ fOut = None
    /\ fOut' = Fitness(fV)
    /\ UNCHANGED <<fV, popVars, rateVars, solveVars, runVars>>

SpecFitness == InitFitness /\ [][ReadFitness]_vars

AllZero(V) == \A i \in 1..Len(V) : V[i] = Zero

\* out is finite, out[i] = (sum|V| - V[i]) / sum_j (sum|V| - V[j]), and sums to 1
Normalised(V, out) ==
    LET S == RSum([i \in 1..Len(V) |-> RAbs(V[i])])
        T == RSub(RMul(Q(Len(V), 1), S), RSum(V))
    IN /\ T # Zero
       /\ \A i \in 1..Len(V) : out[i][2] # 0
       /\ \A i \in 1..Len(V) : RMul(out[i], T) = RSub(S, V[i])
       /\ RSum(out) = One

\* C5 as stated: for every size N >= 1 and every evaluation vector that is
\* not all zeros the fitness is defined, is the normalised sum(|V|) - V_i,
\* and sums to 1
C5_FitnessNormalisedAnySize ==
    (fOut # None /\ ~AllZero(fV)) => Normalised(fV, fOut)

\* C5 amended: the same for N >= 2, and for N = 1 only when V_1 < 0
C5_FitnessNormalised ==
    (fOut # None /\ ~AllZero(fV) /\ (Len(fV) >= 2 \/ RLt(fV[1], Zero)))
        => Normalised(fV, fOut)

\* a fitness computed for a vector of mixed signs
C5_Witness ==
    /\ fOut # None
    /\ Len(fV) >= 2
    /\ \E i, j \in 1..Len(fV) : RLt(fV[i], Zero) /\ RLt(Zero, fV[j])
    /\ Normalised(fV, fOut)

(***************************************************************************)
(* The mutation schedules of both drivers for one draw, generation by      *)
(* generation.                                                             *)
(***************************************************************************)
Bases == {Q(a, b) : a \in 0..(RateMaxDen - 1), b \in 1..RateMaxDen} \cap
         {x \in (0..RateMaxDen) \X (1..RateMaxDen) : x[1] < x[2]}

InitRate ==
    /\ rG \in 1..RateMaxGen
    /\ rBase \in Bases
    /\ rSolve = <<>>
    /\ rRun = <<>>
    /\ IdlePop
    /\ IdleFit
    /\ IdleSolve
    /\ IdleRun

SolveRate ==
    /\ Len(rSolve) < rG
    /\ rSolve' = Append(rSolve, AdaptiveRateSolve(rBase, Len(rSolve) + 1, rG))
    /\ UNCHANGED <<rG, rBase, rRun, popVars, fitVars, solveVars, runVars>>

RunRate ==
    /\ Len(rRun) < rG
    /\ rRun' = Append(rRun, AdaptiveRateRun(rBase, Len(rRun) + 1, rG))
    /\ UNCHANGED <<rG, rBase, rSolve, popVars, fitVars, solveVars, runVars>>

NextRate == SolveRate \/ RunRate

SpecRate == InitRate /\ [][NextRate]_vars

UnitInterval(rates) ==
    \A g \in 1..Len(rates) : RLeq(Zero, rates[g]) /\ RLeq(rates[g], One)

NonDecreasing(rates) ==
    \A g, h \in 1..Len(rates) : g < h => RLeq(rates[g], rates[h])

NonIncreasing(rates) ==
    \A g, h \in 1..Len(rates) : g < h => RLeq(rates[h], rates[g])

\* C8 as stated: the magnitude lies in [0, 1], and for a draw in (0, 1) it
\* does not decrease as g grows and is closest to 1 in generation g = G
C8_MagnitudeRises ==
    /\ UnitInterval(rSolve) /\ UnitInterval(rRun)
    /\ rBase # Zero =>
          /\ NonDecreasing(rSolve) /\ NonDecreasing(rRun)
          /\ Len(rSolve) = rG => \A g \in 1..(rG - 1) : RLeq(rSolve[g], rSolve[rG])
          /\ Len(rRun) = rG => \A g \in 1..(rG - 1) : RLeq(rRun[g], rRun[rG])

\* C8 amended: the magnitude lies in [0, 1], and for a draw in (0, 1) it
\* does not increase as g grows and is 0 in generation g = G
C8_MagnitudeFalls ==
    /\ UnitInterval(rSolve) /\ UnitInterval(rRun)
    /\ rBase # Zero =>
          /\ NonIncreasing(rSolve) /\ NonIncreasing(rRun)
          /\ Len(rSolve) = rG => rSolve[rG] = Zero
          /\ Len(rRun) = rG => rRun[rG] = Zero

\* both schedules complete over two generations or more, for a draw in (0, 1)
C8_Witness ==
    /\ rG >= 2
    /\ rBase # Zero
    /\ Len(rSolve) = rG /\ Len(rRun) = rG
    /\ RLt(rSolve[rG], rSolve[1]) /\ RLt(rRun[rG], rRun[1])

(***************************************************************************)
(* The monolithic driver: GA.__init__, then GA.solve.                      *)
(***************************************************************************)
\* the default of Population.convergent's tol, 1e-6
DefaultTol == Q(1, 1000000)
\* a 'convergenceTolerance' among the keyword arguments, or none
NoTol == <<>>
Tolerances == {NoTol, Q(4, 1)}
SolveDims == {1}
SolveBases == {Q(0, 1), Q(1, 2)}

InitSolve ==
    /\ \E n \in Sizes, dim \in SolveDims, bp \in BoundPairs :
         \E seeds \in [1..n -> [1..dim -> Seeds]] :
            /\ GAInit(n, dim, [i \in 1..dim |-> bp[1]], [i \in 1..dim |-> bp[2]], seeds)
            /\ \E G \in 1..SolveMaxGen, rc \in Rates, rm \in Rates, a \in CrossAlphas,
                  tol \in Tolerances :
                  sParam = [var_dim |-> dim, size |-> n, max_generation |-> G,
                            crossover_rate |-> rc, mutation_rate |-> rm,
                            crossover_alpha |-> a, convergenceTolerance |-> tol]
    /\ sPc = "select"
    /\ sGen = 1
    /\ sRate = Zero
    /\ sSpreads = <<>>
    /\ sTrace = <<>>
    /\ sResult = None
    /\ IdleFit
    /\ IdleRate
    /\ IdleRun

\* the head of the loop body: the generation's magnitude, then select()
SolveSelect ==
    /\ sPc = "select"
    /\ \E base \in SolveBases :
          sRate' = AdaptiveRateSolve(base, sGen, sParam.max_generation)
    /\ \E r \in [1..size -> SelectDraws] : Select(r)
    /\ sPc' = "crossover"
    /\ sTrace' = Append(sTrace, "select")
    /\ UNCHANGED <<steps, sParam, sGen, sSpreads, sResult, fitVars, rateVars, runVars>>

\* crossover(crossover_rate, crossover_alpha); an AssertionError ends solve
SolveCrossover ==
    /\ sPc = "crossover"
    /\ \E perm \in Permutations(1..size), pairs \in [1..size -> PairDraws(sParam.crossover_rate)] :
          Crossover(sParam.crossover_rate, sParam.crossover_alpha, perm, pairs)
    /\ sPc' = IF err' = "none" THEN "mutate" ELSE "aborted"
    /\ sTrace' = Append(sTrace, "crossover")
    /\ UNCHANGED <<steps, sParam, sGen, sRate, sSpreads, sResult, fitVars, rateVars, runVars>>

\* mutate(np.random.randint(var_dim) + 1, mutation_rate, rate)
SolveMutate ==
    /\ sPc = "mutate"
    /\ \E num \in 1..sParam.var_dim :
         \E slots \in [1..size -> SlotDraws(num, sParam.mutation_rate)] :
            Mutate(num, sParam.mutation_rate, sRate, slots)
    /\ sPc' = "convergent"
    /\ sTrace' = Append(sTrace, "mutate")
    /\ UNCHANGED <<steps, sParam, sGen, sRate, sSpreads, sResult, fitVars, rateVars, runVars>>

\* if self._population.convergent(): break -- called without a tolerance
SolveConvergent ==
    /\ sPc = "convergent"
    /\ LET V == EvaluationProperty(evaluation, individuals, heap)
       IN /\ evaluation' = V
          /\ sSpreads' = Append(sSpreads, RSub(RMax(V), RMin(V)))
          /\ IF Convergent(V, DefaultTol) \/ sGen = sParam.max_generation
             THEN sPc' = "results" /\ sGen' = sGen
             ELSE sPc' = "select" /\ sGen' = sGen + 1
    /\ sTrace' = Append(sTrace, "convergent")
    /\ last' = NoHistory("read")
    /\ UNCHANGED <<size, individuals, heap, err, steps, sParam, sRate, sResult,
                   fitVars, rateVars, runVars>>

\* individual, val = self._population.best; return individual, val
SolveReturn ==
    /\ sPc = "results"
    /\ LET V == EvaluationProperty(evaluation, individuals, heap)
       IN /\ evaluation' = V
          /\ sResult' = Best(V, individuals)
    /\ sPc' = "done"
    /\ last' = NoHistory("read")
    /\ UNCHANGED <<size, individuals, heap, err, steps, sParam, sGen, sRate, sSpreads,
                   sTrace, fitVars, rateVars, runVars>>

NextSolve ==
    \/ SolveSelect
    \/ SolveCrossover
    \/ SolveMutate
    \/ SolveConvergent
    \/ SolveReturn

SpecSolve == InitSolve /\ [][NextSolve]_vars

ConfiguredTol ==
    IF sParam.convergenceTolerance = NoTol THEN DefaultTol
    ELSE sParam.convergenceTolerance

LoopBody == <<"select", "crossover", "mutate", "convergent">>

\* the operations run in the order of the loop body, for at most
\* max_generation generations
SolveOrder ==
    /\ \A k \in 1..Len(sTrace) : sTrace[k] = LoopBody[((k - 1) % 4) + 1]
    /\ Len(sTrace) <= 4 * sParam.max_generation
    /\ sGen <= sParam.max_generation

\* a returned solve stopped after the first generation whose spread is within
\* tol, or else after generation max_generation, and returned the best
StoppedAt(tol) ==
    /\ Len(sSpreads) = sGen
    /\ Len(sTrace) = 4 * sGen
    /\ RLeq(sSpreads[sGen], tol) \/ sGen = sParam.max_generation
    /\ \A g \in 1..(sGen - 1) : ~RLeq(sSpreads[g], tol)
    /\ sResult = Best(Evaluate(individuals, heap), individuals)

\* C7: solve applies select, crossover, mutate and the convergence test in
\* that order, never for more than G generations, and returns the best after
\* the first generation whose spread is within the configured
\* convergenceTolerance (1e-6 when none is configured), or after generation G
C7_SolveStopsAtConfiguredTolerance ==
    /\ SolveOrder
    /\ sPc = "done" => StoppedAt(ConfiguredTol)

\* what solve does: the same with the tolerance fixed at 1e-6
C7_SolveStopsAtDefaultTolerance ==
    /\ SolveOrder
    /\ sPc = "done" => StoppedAt(DefaultTol)

(***************************************************************************)
(* The modular driver of GAProcess.py: GA.__init__, then GA.run.  Its      *)
(* population and its strategies are collaborators: a population is a      *)
(* sequence of chromosomes, here single integers, and a strategy may leave *)
(* any population of the same size.                                        *)
(***************************************************************************)
Classes == {"RealIndividual", "BinaryIndividual"}

\* what a strategy's individual_class attribute may hold: None, or a
\* collection of classes, empty or not
Declarations ==
    {[declared |-> FALSE, classes |-> {}]}
    \cup {[declared |-> TRUE, classes |-> c] : c \in SUBSET Classes}

\* a check that lets a strategy without a declaration pass
IncompatibleWhenDeclared(cls, ic) == ic.declared /\ cls \notin ic.classes

\* not op.individual_class or not population.individual.__class__ in op.individual_class
Incompatible(cls, ic) ==
    \/ ~(ic.declared /\ ic.classes # {})
    \/ cls \notin ic.classes

Genes == (0 - MaxGene)..MaxGene
ModPops(n) == [1..n -> Genes]
Objectives == {"identity", "square"}

\* the fun_evaluation given to run(), a deterministic function of the chromosome
Objective(fun, x) == IF fun = "square" THEN x * x ELSE x

\* population.best(fun_evaluation, fun_fitness): the first individual of the
\* least objective value
PopulationBest(fun, pop) ==
    pop[CHOOSE p \in 1..Len(pop) :
           /\ \A q \in 1..Len(pop) : Objective(fun, pop[p]) <= Objective(fun, pop[q])
           /\ \A q \in 1..(p - 1) : Objective(fun, pop[q]) # Objective(fun, pop[p])]

\* mutation.mutate(population, rate): the populations it may leave
StrategyMutate(pop, rate) == ModPops(Len(pop))

\* a generation that does not put the snapshot back
ElitismSkipped(pop, pos, the_best) == pop

\* self.population.individuals[pos] = the_best
ElitismReplace(pop, pos, the_best) == [pop EXCEPT ![pos] = the_best]

InitRun ==
    /\ mArgs \in [population : [individual : Classes, size : Sizes],
                  selection : {"selection"},
                  crossover : [individual_class : Declarations],
                  mutation : [individual_class : Declarations],
                  fun_fitness : {"arctan"}]
    /\ mDriver = None
    /\ mPc = "new"
    /\ mRun = <<>>
    /\ mPop = None
    /\ mN = 0
    /\ mBest = None
    /\ mSnaps = <<>>
    /\ mResult = None
    /\ IdlePop
    /\ IdleFit
    /\ IdleRate
    /\ IdleSolve

RunFrame == UNCHANGED <<popVars, fitVars, rateVars, solveVars>>

\* GA.__init__ of GAProcess.py
Construct ==
    /\ mPc = "new"
    /\ IF \/ Incompatible(mArgs.population.individual, mArgs.crossover.individual_class)
          \/ Incompatible(mArgs.population.individual, mArgs.mutation.individual_class)
       THEN /\ mPc' = "ValueError"
            /\ UNCHANGED mDriver
       ELSE /\ mPc' = "constructed"
            /\ mDriver' = <<[population |-> mArgs.population,
                             selection |-> mArgs.selection,
                             crossover |-> mArgs.crossover,
                             mutation |-> mArgs.mutation,
                             fun_fitness |-> mArgs.fun_fitness]>>
    /\ UNCHANGED <<mArgs, mRun, mPop, mN, mBest, mSnaps, mResult>>
    /\ RunFrame

\* run(fun_evaluation, gen, elitism): self.population.initialize()
RunInitialize ==
    /\ mPc = "constructed"
    /\ \E gen \in 0..RunMaxGen, elitism \in BOOLEAN, fun \in Objectives :
          /\ mRun' = [gen |-> gen, elitism |-> elitism, fun_evaluation |-> fun]
          /\ mPc' = IF gen >= 1 THEN "snapshot" ELSE "return"
    /\ mPop' \in ModPops(mDriver[1].population.size)
    /\ mN' = 1
    /\ UNCHANGED <<mArgs, mDriver, mBest, mSnaps, mResult>>
    /\ RunFrame

\* the_best = copy.deepcopy(population.best(...)), or population.evaluate(...)
RunSnapshot ==
    /\ mPc = "snapshot"
    /\ IF mRun.elitism
       THEN LET b == PopulationBest(mRun.fun_evaluation, mPop)
            IN /\ mBest' = <<b>>
               /\ mSnaps' = Append(mSnaps, Objective(mRun.fun_evaluation, b))
       ELSE UNCHANGED <<mBest, mSnaps>>
    /\ mPc' = "select"
    /\ UNCHANGED <<mArgs, mDriver, mRun, mPop, mN, mResult>>
    /\ RunFrame

\* self.selection.select(self.population): a draw among the members
RunSelect ==
    /\ mPc = "select"
    /\ mPop' \in [1..Len(mPop) -> {mPop[i] : i \in 1..Len(mPop)}]
    /\ mPc' = "cross"
    /\ UNCHANGED <<mArgs, mDriver, mRun, mN, mBest, mSnaps, mResult>>
    /\ RunFrame

\* self.crossover.cross(self.population)
RunCross ==
    /\ mPc = "cross"
    /\ mPop' \in ModPops(Len(mPop))
    /\ mPc' = "mutate"
    /\ UNCHANGED <<mArgs, mDriver, mRun, mN, mBest, mSnaps, mResult>>
    /\ RunFrame

\* rate = 1.0 - np.random.rand()**((1.0-n/gen)**3); self.mutation.mutate(population, rate)
RunMutate ==
    /\ mPc = "mutate"
    /\ \E base \in SolveBases :
         mPop' \in StrategyMutate(mPop, AdaptiveRateRun(base, mN, mRun.gen))
    /\ mPc' = "elite"
    /\ UNCHANGED <<mArgs, mDriver, mRun, mN, mBest, mSnaps, mResult>>
    /\ RunFrame

\* the elitism at the end of the loop body, and the step to the next generation
RunElitism ==
    /\ mPc = "elite"
    /\ IF mRun.elitism
       THEN \E pos \in 1..Len(mPop) : mPop' = ElitismReplace(mPop, pos, mBest[1])
       ELSE UNCHANGED mPop
    /\ IF mN < mRun.gen
       THEN mN' = mN + 1 /\ mPc' = "snapshot"
       ELSE mN' = mN /\ mPc' = "return"
    /\ UNCHANGED <<mArgs, mDriver, mRun, mBest, mSnaps, mResult>>
    /\ RunFrame

\* return self.population.best(fun_evaluation, self.fun_fitness)
RunReturn ==
    /\ mPc = "return"
    /\ mResult' = <<PopulationBest(mRun.fun_evaluation, mPop)>>
    /\ mPc' = "done"
    /\ UNCHANGED <<mArgs, mDriver, mRun, mPop, mN, mBest, mSnaps>>
    /\ RunFrame

NextRun ==
    \/ Construct
    \/ RunInitialize
    \/ RunSnapshot
    \/ RunSelect
    \/ RunCross
    \/ RunMutate
    \/ RunElitism
    \/ RunReturn

SpecRun == InitRun /\ [][NextRun]_vars

\* C3: with elitism, the objective value of the best taken at the snapshot
\* point of generation n+1 is never larger than the one of generation n, and
\* the best run() returns is never worse than the last snapshot
C3_ElitismKeepsBest ==
    /\ \A k \in 1..(Len(mSnaps) - 1) : mSnaps[k + 1] <= mSnaps[k]
    /\ (mPc = "done" /\ mSnaps # <<>>) =>
          Objective(mRun.fun_evaluation, mResult[1]) <= mSnaps[Len(mSnaps)]

\* a run of two generations whose second snapshot is strictly better
C3_Witness ==
    /\ mPc = "done"
    /\ Len(mSnaps) = 2
    /\ mSnaps[2] < mSnaps[1]
    /\ Objective(mRun.fun_evaluation, mResult[1]) <= mSnaps[2]

Undeclared(cls, ic) == ~ic.declared \/ ic.classes = {} \/ cls \notin ic.classes

\* C6: construction fails exactly when the population's individual class is
\* not in the declared set of the crossover or of the mutation strategy (an
\* empty or missing set counts as incompatible); a failure assigns no field
\* and runs nothing, a success stores the population and the strategies
C6_CompatibilityCheck ==
    mPc # "new" =>
        /\ mPc = "ValueError" <=>
              \/ Undeclared(mArgs.population.individual, mArgs.crossover.individual_class)
              \/ Undeclared(mArgs.population.individual, mArgs.mutation.individual_class)
        /\ mPc = "ValueError" =>
              mDriver = None /\ mPop = None /\ mN = 0 /\ mSnaps = <<>> /\ mResult = None
        /\ mPc # "ValueError" =>
              /\ mDriver # None
              /\ mDriver[1].population = mArgs.population
              /\ mDriver[1].selection = mArgs.selection
              /\ mDriver[1].crossover = mArgs.crossover
              /\ mDriver[1].mutation = mArgs.mutation

\* a construction refused for a strategy that declares no class at all
C6_Witness ==
    /\ mPc = "ValueError"
    /\ ~mArgs.crossover.individual_class.declared
    /\ mArgs.population.individual \in mArgs.mutation.individual_class.classes

====
